---- MODULE Spec2Model ----
(***************************************************************************)
(* A model of the ordered-list node of library/src/basics/enum.rs:        *)
(* EnumNode (construct, field, layout), EnumNumbering (resolve) and the    *)
(* cast of a value to EnumNumbering.                                       *)
(*                                                                         *)
(* Machine integers are scaled down: Value::Int (i64) is I64Bits wide, and  *)
(* usize is as wide as the build target makes it: as wide as i64 (a 64-bit *)
(* target) or narrower (a 32-bit target).                                  *)
(***************************************************************************)
EXTENDS Integers, Sequences, FiniteSets, TLC

\* ------------------------------------------------------------------ bounds

\* Width of Value::Int (i64), scaled down from 64.
I64Bits == 3

\* Most items of one list.
MaxItems == 3

\* Most characters of a string handed to the cast.
MaxStrLen == 3

\* Most chars of a title handed to urlify, the titles its match names aside.
MaxTitleLen == 3

\* Most chars of the docs handed to split_details_and_example.
MaxDocLen == 7

\* Most options of the union handed to param_model, nested unions aside.
MaxOptions == 3

\* The threads that dereference the registries.
NumThreads == 2

\* Most groups of reference/groups.yml.
MaxGroups == 2

\* ------------------------------------------------------------------- state

VARIABLES
    usizeBits, \* the width of usize on the build target
    args,     \* the arguments the node was constructed from
    node,     \* the EnumNode: [tight, items]
    styles,   \* layout's style chain
    regions,  \* layout's regions
    pc,       \* where the layout call stands: idle, loop, done
    cells,    \* layout's local `cells`
    number,   \* layout's local `number`
    idx,      \* position of the item iterator (1-based)
    shown,    \* the numbers handed to numbering.resolve in this call
    calls,    \* the callback invocations of this call (their Args)
    result,   \* the value the last operation returned
    prev,     \* what the previous layout call of the same inputs returned
    castIn,   \* the value handed to EnumNumbering::cast
    castOut,  \* what the cast returned
    title,    \* the title handed to urlify
    slug,     \* what urlify returned for it
    slugAgain, \* what urlify returned for that result
    docs,     \* the docs handed to split_details_and_example
    details,  \* the details it returned
    example,  \* the example it returned
    info,     \* the cast description handed to param_model
    types,    \* the types of the ParamModel it returned
    strings,  \* the strings of the ParamModel it returned
    cell,     \* per registry, the state of its Lazy: uninit, running, done
    owner,    \* per registry, the thread that runs or ran its initializer
    value,    \* per registry, the value its Lazy holds
    runs,     \* per registry, how often its initializer was entered
    stack,    \* per thread, the accesses it is in, innermost last
    seen,     \* per thread, the registry and value its last access returned
    yml       \* what yaml returned for reference/groups.yml

buildVars == <<usizeBits>>
enumVars == <<args, node, styles, regions, pc, cells, number, idx, shown, calls, result, prev>>
castVars == <<castIn, castOut>>
urlVars == <<title, slug, slugAgain>>
splitVars == <<docs, details, example>>
paramVars == <<info, types, strings>>
lazyVars == <<cell, owner, value, runs, stack, seen, yml>>

\* Per component, the variables its operations leave alone.
otherThanEnum == <<buildVars, castVars, urlVars, splitVars, paramVars, lazyVars>>
otherThanCast == <<buildVars, enumVars, urlVars, splitVars, paramVars, lazyVars>>
otherThanUrlify == <<buildVars, enumVars, castVars, splitVars, paramVars, lazyVars>>
otherThanSplit == <<buildVars, enumVars, castVars, urlVars, paramVars, lazyVars>>
otherThanParam == <<buildVars, enumVars, castVars, urlVars, splitVars, lazyVars>>
otherThanLazy == <<buildVars, enumVars, castVars, urlVars, splitVars, paramVars>>
vars == <<buildVars, enumVars, castVars, urlVars, splitVars, paramVars, lazyVars>>

NoArgs == [kind |-> "no_args"]
NoNode == [kind |-> "no_node"]
NoResult == [kind |-> "no_result"]
NoPrev == [kind |-> "no_prev"]
NoValue == [kind |-> "no_value"]

\* ------------------------------------------------------- machine integers

RECURSIVE Pow2(_)
Pow2(n) == IF n = 0 THEN 1 ELSE 2 * Pow2(n - 1)

Min(a, b) == IF a <= b THEN a ELSE b

\* The widths of usize the build targets give (32-bit and 64-bit, scaled).
UsizeWidths == {I64Bits - 1, I64Bits}

\* usize::MAX
UsizeMax == Pow2(usizeBits) - 1

\* i64::MAX
I64Max == Pow2(I64Bits - 1) - 1

\* NonZeroUsize
NonZeroUsize == 1..UsizeMax

\* Option<NonZeroUsize>: 0 is None (the niche of the non-zero type).
OptNumber == 0..UsizeMax

\* A faulty variant of SaturatingAdd1: the increment wraps around.
WrappingAdd1(n) == (n + 1) % Pow2(usizeBits)

\* NonZeroUsize::saturating_add(1)
SaturatingAdd1(n) == IF n = UsizeMax THEN UsizeMax ELSE n + 1

\* `n.get() as i64`: the low I64Bits bits of the usize, read as a signed
\* integer (a narrower usize is zero-extended).
AsI64(n) ==
    LET low == n % Pow2(I64Bits)
    IN IF low > I64Max THEN low - Pow2(I64Bits) ELSE low

\* A faulty variant of UnwrapOr: the explicit number is ignored.
UnwrapOrIgnoresExplicit(opt, default) == default

\* Option::unwrap_or on Option<NonZeroUsize>
UnwrapOr(opt, default) == IF opt = 0 THEN default ELSE opt

\* ------------------------------------------------------------------ values

\* Bodies of list items (opaque content).
Bodies == {[kind |-> "body", id |-> "x"], [kind |-> "body", id |-> "y"]}

\* Source spans.
Spans == {"span1", "span2"}

\* Function values usable as numbering callbacks: a function is known by the
\* set of arguments on which it raises an error; on the others it returns.
Funcs == {[kind |-> "func", rejects |-> {}], [kind |-> "func", rejects |-> {2}]}

\* Content::empty()
EmptyContent == [kind |-> "empty"]

\* Content::styled_with_map(map)
StyledWithMap(content, map) == [kind |-> "styled", content |-> content, map |-> map]

\* Value::None, Value::Bool, Value::Int, Value::Content, Value::Dict, Value::Array
ValueNone == [kind |-> "none"]
ValueBool(b) == [kind |-> "bool", v |-> b]
ValueInt(i) == [kind |-> "int", v |-> i]
ValueContent(c) == [kind |-> "content", v |-> c]
ValueDict(num, body) == [kind |-> "dict", number |-> num, body |-> body]
ValueArray(seq) == [kind |-> "array", v |-> seq]
ValueStr(s) == [kind |-> "str", v |-> s]
ValueFunc(f) == [kind |-> "func", v |-> f]

\* Option<Value>
OptNone == [kind |-> "option_none"]
OptSome(v) == [kind |-> "option_some", v |-> v]

\* --------------------------------------------------------- numbering pattern

\* Characters of the strings handed to the cast.
PatternChars == {"1", "a", "(", "."}

\* The characters that select a counting style.
CountingChars == {"1", "a"}

\* NumberingPattern::from_str: the string splits into literal text and
\* counting placeholders; a pattern has at least one placeholder.
RECURSIVE Pieces(_)
Pieces(s) ==
    IF s = <<>> THEN <<>>
    ELSE IF Head(s) \in CountingChars
         THEN <<Head(s)>> \o Pieces(Tail(s))
         ELSE Pieces(Tail(s))

ParsePattern(s) ==
    IF Pieces(s) = <<>>
    THEN [ok |-> FALSE, err |-> [kind |-> "parse_error", text |-> s]]
    ELSE [ok |-> TRUE, v |-> [kind |-> "pattern", text |-> s]]

\* EnumNumbering::Pattern, EnumNumbering::Func
NumberingPattern(p) == [kind |-> "Pattern", pattern |-> p]
NumberingFunc(f, span) == [kind |-> "Func", func |-> f, span |-> span]

\* EnumNode::NUMBERING's default, from_str("1.").unwrap()
DefaultNumbering == NumberingPattern(ParsePattern(<<"1", ".">>).v)

\* ------------------------------------------------------------- style chain

\* A style map attached to one item: a sequence of (property, value) overrides.
EmptyMap == <<>>
AltNumbering == NumberingPattern(ParsePattern(<<"(", "a">>).v)
NumberingOverride == <<[property |-> "enum.numbering", value |-> AltNumbering]>>
StyleMaps == {EmptyMap, NumberingOverride}

\* Lengths and spacings are opaque amounts.
StyleNumberings ==
    {DefaultNumbering} \cup {NumberingFunc(f, "span1") : f \in Funcs}

StyleChains ==
    [numbering : StyleNumberings,
     indent : {[kind |-> "length", of |-> "enum.indent"]},
     body_indent : {[kind |-> "length", of |-> "enum.body-indent"]},
     leading : {[kind |-> "length", of |-> "par.leading"]},
     spacing : {[kind |-> "auto"], [kind |-> "spacing", of |-> "enum.spacing"]},
     below : {[amount |-> [kind |-> "spacing", of |-> "block.below"]]}]

NoStyles == [kind |-> "no_styles"]

Regions == {[kind |-> "regions", of |-> "page"]}
NoRegions == [kind |-> "no_regions"]

\* ------------------------------------------------------------------- items

Item(n, body, map) == [number |-> n, body |-> body, map |-> map]

\* Sequences over S of length at most n.
RECURSIVE SeqsUpTo(_, _)
SeqsUpTo(S, n) ==
    IF n = 0 THEN {<<>>}
    ELSE LET shorter == SeqsUpTo(S, n - 1)
         IN shorter \cup {Append(s, x) : s \in {t \in shorter : Len(t) = n - 1}, x \in S}

\* ----------------------------------------------------------- EnumNode::construct

\* The values of the named argument `start`: a NonZeroUsize that came from a
\* Value::Int.
StartValues == 1..Min(I64Max, UsizeMax)

\* Named arguments are optional: <<>> is absent, <<v>> is present.
ArgSets ==
    [start : {<<>>} \cup {<<s>> : s \in StartValues},
     tight : {<<>>} \cup {<<b>> : b \in BOOLEAN},
     positional : SeqsUpTo(Bodies, MaxItems)]

NamedOr(opt, default) == IF opt = <<>> THEN default ELSE opt[1]

\* A faulty variant of ConstructItems: the running number never increments.
RECURSIVE ConstructItemsNoIncrement(_, _)
ConstructItemsNoIncrement(bodies, n) ==
    IF bodies = <<>> THEN <<>>
    ELSE <<Item(n, Head(bodies), EmptyMap)>>
         \o ConstructItemsNoIncrement(Tail(bodies), n)

\* The closure of the map over args.all(): the item takes the running number,
\* which then increments (saturating).
RECURSIVE ConstructItems(_, _)
ConstructItems(bodies, n) ==
    IF bodies = <<>> THEN <<>>
    ELSE <<Item(n, Head(bodies), EmptyMap)>>
         \o ConstructItems(Tail(bodies), SaturatingAdd1(n))

ConstructNode(a) ==
    [tight |-> NamedOr(a.tight, TRUE),
     items |-> ConstructItems(a.positional, NamedOr(a.start, 1))]

Construct(a) ==
    /\ pc = "idle"
    /\ node = NoNode
    /\ args' = a
    /\ node' = ConstructNode(a)
    /\ result' = NoResult
    /\ prev' = NoPrev
    /\ UNCHANGED <<styles, regions, pc, cells, number, idx, shown, calls>>
    /\ UNCHANGED otherThanEnum

\* ------------------------------------------------- a node built from markup

\* The explicit numbers markup items carry (0: the item is unnumbered).
ItemNumbers == {0, 2, UsizeMax}

\* The body of the i-th item of a markup list (bodies alternate).
BodyAt(i) == IF i % 2 = 1 THEN [kind |-> "body", id |-> "x"] ELSE [kind |-> "body", id |-> "y"]

\* The lists markup can produce: each item with an optional explicit number,
\* a body and the style map attached to it.
MarkupLists ==
    UNION {{[i \in 1..k |-> Item(f[i][1], BodyAt(i), f[i][2])] :
                f \in [1..k -> ItemNumbers \X StyleMaps]} : k \in 0..MaxItems}

Realize(tight, items) ==
    /\ pc = "idle"
    /\ node = NoNode
    /\ args' = NoArgs
    /\ node' = [tight |-> tight, items |-> items]
    /\ result' = NoResult
    /\ prev' = NoPrev
    /\ UNCHANGED <<styles, regions, pc, cells, number, idx, shown, calls>>
    /\ UNCHANGED otherThanEnum

\* --------------------------------------------------------------- EnumNode::field

FieldNames == {"tight", "items", "number", "body"}

\* One entry of the "items" array.
ItemDict(item) ==
    ValueDict(IF item.number = 0 THEN ValueNone ELSE ValueInt(AsI64(item.number)),
              ValueContent(item.body))

FieldOf(n, name) ==
    CASE name = "tight" -> OptSome(ValueBool(n.tight))
      [] name = "items" ->
            OptSome(ValueArray([i \in 1..Len(n.items) |-> ItemDict(n.items[i])]))
      [] OTHER -> OptNone

Field(name) ==
    /\ pc = "idle"
    /\ node # NoNode
    /\ result' = [kind |-> "field", name |-> name, value |-> FieldOf(node, name)]
    /\ UNCHANGED <<args, node, styles, regions, pc, cells, number, idx, shown, calls, prev>>
    /\ UNCHANGED otherThanEnum

\* -------------------------------------------------------- EnumNumbering::resolve

\* Args::new(span, [Value::Int(number.get() as i64)])
CallArgs(span, n) == [span |-> span, items |-> <<ValueInt(AsI64(n))>>]

\* func.call_detached(world, args): the function returns a value or raises.
CallDetached(func, a) ==
    IF a.items[1].v \in func.rejects
    THEN [ok |-> FALSE, err |-> [kind |-> "callback_error", func |-> func, args |-> a]]
    ELSE [ok |-> TRUE, v |-> [kind |-> "returned", func |-> func, args |-> a]]

\* Value::display()
Display(v) == [kind |-> "display", value |-> v]

\* A faulty variant of Resolve: the callback's error is displayed instead of returned.
ResolveSwallowsError(numbering, n) ==
    IF numbering.kind = "Pattern"
    THEN [ok |-> TRUE, v |-> [kind |-> "text", pattern |-> numbering.pattern, counters |-> <<n>>]]
    ELSE LET r == CallDetached(numbering.func, CallArgs(numbering.span, n))
         IN IF r.ok THEN [ok |-> TRUE, v |-> Display(r.v)]
            ELSE [ok |-> TRUE, v |-> Display(r.err)]

\* TextNode::packed(pattern.apply(&[number]))
PatternText(pattern, n) == [kind |-> "text", pattern |-> pattern, counters |-> <<n>>]

Resolve(numbering, n) ==
    IF numbering.kind = "Pattern"
    THEN [ok |-> TRUE, v |-> PatternText(numbering.pattern, n)]
    ELSE LET r == CallDetached(numbering.func, CallArgs(numbering.span, n))
         IN IF r.ok THEN [ok |-> TRUE, v |-> Display(r.v)] ELSE r

\* The callback invocations one resolve makes.
ResolveCalls(numbering, n) ==
    IF numbering.kind = "Pattern" THEN <<>> ELSE <<CallArgs(numbering.span, n)>>

\* -------------------------------------------------------------- EnumNode::layout

\* A faulty variant of Gutter: the tight flag is ignored.
GutterIgnoresTight(n, st) ==
    IF st.spacing.kind = "auto" THEN st.below.amount ELSE st.spacing

\* let gutter = if self.tight { leading } else { spacing or below.amount }
Gutter(n, st) ==
    IF n.tight THEN st.leading
    ELSE IF st.spacing.kind = "auto" THEN st.below.amount ELSE st.spacing

\* TrackSizing
TrackRelative(len) == [kind |-> "relative", v |-> len]
TrackAuto == [kind |-> "auto"]

\* GridNode { tracks: Axes::with_x(..), gutter: Axes::with_y(..), cells }
GridNode(st, gutter, cs) ==
    [tracks |-> [x |-> <<TrackRelative(st.indent), TrackAuto,
                         TrackRelative(st.body_indent), TrackAuto>>,
                 y |-> <<>>],
     gutter |-> [x |-> <<>>, y |-> <<gutter>>],
     cells |-> cs]

\* GridNode::layout(vt, styles, regions): what the grid's layout returns for
\* these inputs.
GridLayout(grid, st, rg) ==
    [kind |-> "grid_layout", grid |-> grid, styles |-> st, regions |-> rg]

\* A faulty variant of ItemCells: the body comes before its marker.
ItemCellsBodyFirst(resolved, item) ==
    <<EmptyContent, StyledWithMap(item.body, item.map),
      EmptyContent, StyledWithMap(resolved, item.map)>>

\* The four cells one item contributes.
ItemCells(resolved, item) ==
    <<EmptyContent, StyledWithMap(resolved, item.map),
      EmptyContent, StyledWithMap(item.body, item.map)>>

\* What a finished call has produced.
Outcome == [result |-> result, cells |-> cells, shown |-> shown, calls |-> calls]

\* A faulty variant of LayoutEnter: the counter lives on between calls.
LayoutEnterKeepsCounter(st, rg, pv) ==
    /\ node # NoNode
    /\ styles' = st
    /\ regions' = rg
    /\ cells' = <<>>
    /\ idx' = 1
    /\ shown' = <<>>
    /\ calls' = <<>>
    /\ result' = NoResult
    /\ prev' = pv
    /\ pc' = "loop"
    /\ UNCHANGED <<args, node, number>>
    /\ UNCHANGED otherThanEnum

\* Entering layout: the locals before the loop.
LayoutEnter(st, rg, pv) ==
    /\ node # NoNode
    /\ styles' = st
    /\ regions' = rg
    /\ cells' = <<>>
    /\ number' = 1
    /\ idx' = 1
    /\ shown' = <<>>
    /\ calls' = <<>>
    /\ result' = NoResult
    /\ prev' = pv
    /\ pc' = "loop"
    /\ UNCHANGED <<args, node>>
    /\ UNCHANGED otherThanEnum

\* A first call with these styles and regions.
LayoutBegin(st, rg) ==
    /\ pc = "idle"
    /\ LayoutEnter(st, rg, NoPrev)

\* A second call with the same node, styles and regions.
LayoutAgain ==
    /\ pc = "done"
    /\ LayoutEnter(styles, regions, Outcome)

\* One iteration of `for ((n, item), map) in self.items.iter()`.
LayoutItem ==
    /\ pc = "loop"
    /\ idx <= Len(node.items)
    /\ LET item == node.items[idx]
           n == UnwrapOr(item.number, number)
           r == Resolve(styles.numbering, n)
       IN /\ shown' = Append(shown, n)
          /\ calls' = calls \o ResolveCalls(styles.numbering, n)
          /\ IF r.ok
             THEN /\ cells' = cells \o ItemCells(r.v, item)
                  /\ number' = SaturatingAdd1(n)
                  /\ idx' = idx + 1
                  /\ UNCHANGED <<pc, result>>
             ELSE /\ number' = n
                  /\ result' = [kind |-> "err", err |-> r.err]
                  /\ pc' = "done"
                  /\ UNCHANGED <<cells, idx>>
    /\ UNCHANGED <<args, node, styles, regions, prev>>
    /\ UNCHANGED otherThanEnum

\* After the loop: the grid is built and laid out.
LayoutGrid ==
    /\ pc = "loop"
    /\ idx > Len(node.items)
    /\ result' = GridLayout(GridNode(styles, Gutter(node, styles), cells), styles, regions)
    /\ pc' = "done"
    /\ UNCHANGED <<args, node, styles, regions, cells, number, idx, shown, calls, prev>>
    /\ UNCHANGED otherThanEnum

\* The call returns to its caller; its locals are gone.
LayoutReturn ==
    /\ pc = "done"
    /\ pc' = "idle"
    /\ styles' = NoStyles
    /\ regions' = NoRegions
    /\ cells' = <<>>
    /\ number' = 1
    /\ idx' = 1
    /\ shown' = <<>>
    /\ calls' = <<>>
    /\ result' = NoResult
    /\ prev' = NoPrev
    /\ UNCHANGED <<args, node>>
    /\ UNCHANGED otherThanEnum

\* ---------------------------------------- impl Cast<Spanned<Value>> for EnumNumbering

\* Values of the variants the cast has no arm for.
OtherValues ==
    {ValueNone, ValueBool(TRUE), ValueInt(1), ValueContent([kind |-> "body", id |-> "x"])}

\* The strings handed to the cast.
CastStrings == SeqsUpTo(PatternChars, MaxStrLen)

\* Spanned<Value>
CastValues ==
    {[v |-> x, span |-> sp] :
        x \in {ValueStr(str) : str \in CastStrings} \cup {ValueFunc(f) : f \in Funcs}
              \cup OtherValues,
        sp \in Spans}

\* fn describe() -> CastInfo
Describe ==
    [kind |-> "union",
     of |-> <<[kind |-> "type", name |-> "string"], [kind |-> "type", name |-> "function"]>>]

\* Value::type_name
TypeName(v) ==
    CASE v.kind = "str" -> "string"
      [] v.kind = "func" -> "function"
      [] v.kind = "content" -> "content"
      [] v.kind = "int" -> "integer"
      [] v.kind = "bool" -> "boolean"
      [] OTHER -> "none"

\* Self::error(v): the recoverable "expected .., found .." error.
CastError(v) ==
    [ok |-> FALSE,
     err |-> [kind |-> "cast_error", expected |-> Describe, found |-> TypeName(v)]]

\* A faulty variant of Cast: content is accepted, as `is` suggests.
CastAcceptsContent(sv) ==
    CASE sv.v.kind = "str" ->
            LET p == ParsePattern(sv.v.v)
            IN IF p.ok THEN [ok |-> TRUE, v |-> NumberingPattern(p.v)] ELSE p
      [] sv.v.kind = "func" -> [ok |-> TRUE, v |-> NumberingFunc(sv.v.v, sv.span)]
      [] sv.v.kind = "content" -> [ok |-> TRUE, v |-> DefaultNumbering]
      [] OTHER -> CastError(sv.v)

\* fn cast(value: Spanned<Value>) -> StrResult<Self>
Cast(sv) ==
    CASE sv.v.kind = "str" ->
            LET p == ParsePattern(sv.v.v)
            IN IF p.ok THEN [ok |-> TRUE, v |-> NumberingPattern(p.v)] ELSE p
      [] sv.v.kind = "func" -> [ok |-> TRUE, v |-> NumberingFunc(sv.v.v, sv.span)]
      [] OTHER -> CastError(sv.v)

\* fn is(value: &Spanned<Value>) -> bool
Is(sv) == sv.v.kind \in {"content", "func"}

CastValue(sv) ==
    /\ castIn' = sv
    /\ castOut' = Cast(sv)
    /\ UNCHANGED otherThanCast

\* ------------------------------------------------------------------ urlify
\* src/crates/typst-docs/src/lib.rs. A string is the sequence of its chars;
\* a char outside ASCII is written as its code point, "U+6559".

NoTitle == [kind |-> "no_title"]
NoSlug == [kind |-> "no_slug"]

\* A &str or EcoString of the given chars.
StrOf(chars) == [kind |-> "str", chars |-> chars]

UpperCase ==
    <<"A", "B", "C", "D", "E", "F", "G", "H", "I", "J", "K", "L", "M",
      "N", "O", "P", "Q", "R", "S", "T", "U", "V", "W", "X", "Y", "Z">>

LowerCase ==
    <<"a", "b", "c", "d", "e", "f", "g", "h", "i", "j", "k", "l", "m",
      "n", "o", "p", "q", "r", "s", "t", "u", "v", "w", "x", "y", "z">>

Digits == <<"0", "1", "2", "3", "4", "5", "6", "7", "8", "9">>

Range(f) == {f[i] : i \in DOMAIN f}

\* A faulty variant of ToAsciiLowercase: the char is left as it is.
ToAsciiLowercaseKeepsCase(c) == c

\* char::to_ascii_lowercase
ToAsciiLowercase(c) ==
    IF c \in Range(UpperCase)
    THEN LowerCase[CHOOSE i \in DOMAIN UpperCase : UpperCase[i] = c]
    ELSE c

\* 'a'..='z' | '0'..='9' => c, _ => '-'
KeepOrDash(c) ==
    IF c \in Range(LowerCase) \cup Range(Digits) THEN c ELSE "-"

\* The arms of urlify's match that name a title, as <<title, slug>>.
HardCoded ==
    <<
      <<<<"U+6559", "U+7A0B">>,
        <<"t", "u", "t", "o", "r", "i", "a", "l">>>>,
      <<<<"U+4F7F", "U+7528", " ", "T", "y", "p", "s", "t", " ", "U+5199", "U+4F5C">>,
        <<"w", "r", "i", "t", "i", "n", "g", "-", "i", "n", "-", "t", "y", "p", "s", "t">>>>,
      <<<<"U+683C", "U+5F0F">>,
        <<"f", "o", "r", "m", "a", "t", "t", "i", "n", "g">>>>,
      <<<<"U+9AD8", "U+7EA7", "U+6837", "U+5F0F">>,
        <<"a", "d", "v", "a", "n", "c", "e", "d", "-", "s", "t", "y", "l", "i", "n", "g">>>>,
      <<<<"U+5236", "U+4F5C", "U+6A21", "U+677F">>,
        <<"m", "a", "k", "i", "n", "g", "-", "a", "-", "t", "e", "m", "p", "l", "a", "t", "e">>>>,
      <<<<"U+4E2D", "U+6587", "U+7528", "U+6237", "U+6307", "U+5357">>,
        <<"c", "h", "i", "n", "e", "s", "e">>>>,
      <<<<"U+53C2", "U+8003">>,
        <<"r", "e", "f", "e", "r", "e", "n", "c", "e">>>>,
      <<<<"U+8BED", "U+6CD5">>,
        <<"s", "y", "n", "t", "a", "x">>>>,
      <<<<"U+6837", "U+5F0F">>,
        <<"s", "t", "y", "l", "i", "n", "g">>>>,
      <<<<"U+811A", "U+672C">>,
        <<"s", "c", "r", "i", "p", "t", "i", "n", "g">>>>,
      <<<<"U+6307", "U+5357">>,
        <<"g", "u", "i", "d", "e", "s">>>>,
      <<<<"L", "a", "T", "e", "X", " ", "U+7528", "U+6237", "U+6307", "U+5357">>,
        <<"g", "u", "i", "d", "e", "-", "f", "o", "r", "-", "l", "a", "t", "e", "x", "-", "u", "s", "e", "r", "s">>>>,
      <<<<"U+9875", "U+9762", "U+8BBE", "U+7F6E", "U+6307", "U+5357">>,
        <<"p", "a", "g", "e", "-", "s", "e", "t", "u", "p">>>>,
      <<<<"U+66F4", "U+65B0", "U+65E5", "U+5FD7">>,
        <<"c", "h", "a", "n", "g", "e", "l", "o", "g">>>>,
      <<<<"U+8DEF", "U+7EBF", "U+56FE">>,
        <<"r", "o", "a", "d", "m", "a", "p">>>>,
      <<<<"U+793E", "U+533A">>,
        <<"c", "o", "m", "m", "u", "n", "i", "t", "y">>>>,
      <<<<"U+672F", "U+8BED", "U+8868">>,
        <<"g", "l", "o", "s", "s", "a", "r", "y">>>>>>

HardCodedTitles == {HardCoded[i][1] : i \in DOMAIN HardCoded}

\* pub fn urlify(title: &str) -> EcoString
UrlifyOf(t) ==
    IF t \in HardCodedTitles
    THEN HardCoded[CHOOSE i \in DOMAIN HardCoded : HardCoded[i][1] = t][2]
    ELSE [i \in 1..Len(t) |-> KeepOrDash(ToAsciiLowercase(t[i]))]

\* The chars the titles handed to urlify are made of, besides the titles
\* the match names.
TitleChars == {"A", "Z", "b", "7", " ", "-", "U+6559", "U+7A0B"}

Titles ==
    HardCodedTitles
    \cup UNION {[1..n -> TitleChars] : n \in 0..MaxTitleLen}

\* urlify(title)
Urlify(t) ==
    /\ title' = StrOf(t)
    /\ slug' = StrOf(UrlifyOf(t))
    /\ slugAgain' = NoSlug
    /\ UNCHANGED otherThanUrlify

\* urlify(&urlify(title)): the result is a title again, as in the ids built
\* from ids.
UrlifyAgain ==
    /\ slug # NoSlug
    /\ slugAgain = NoSlug
    /\ slugAgain' = StrOf(UrlifyOf(slug.chars))
    /\ UNCHANGED <<title, slug>>
    /\ UNCHANGED otherThanUrlify

UrlifyIdle ==
    /\ title = NoTitle
    /\ slug = NoSlug
    /\ slugAgain = NoSlug

\* ------------------------------------------------- split_details_and_example
\* src/crates/typst-docs/src/lib.rs. Positions count chars from 0, as the
\* byte offsets of the source do for the ASCII docs modelled here.

NoDocs == [kind |-> "no_docs"]
NoDetails == [kind |-> "no_details"]
NoExample == [kind |-> "no_example"]

\* The backtick, by its code point.
Backtick == "U+0060"

\* The chars of the docs: the backtick and any other char.
DocChars == {Backtick, "a"}

DocStrings == SeqsUpTo(DocChars, MaxDocLen)

\* The fence of three backticks starts at position i of d.
FenceAt(d, i) ==
    /\ i + 3 <= Len(d)
    /\ d[i + 1] = Backtick
    /\ d[i + 2] = Backtick
    /\ d[i + 3] = Backtick

FencePositions(d) == {i \in 0..Len(d) : FenceAt(d, i)}

\* A faulty variant of Find: the last occurrence of the fence (rfind).
FindLast(d) ==
    IF FencePositions(d) = {} THEN OptNone
    ELSE OptSome(CHOOSE i \in FencePositions(d) : \A j \in FencePositions(d) : j <= i)

\* docs.find(fence)
Find(d) ==
    IF FencePositions(d) = {} THEN OptNone
    ELSE OptSome(CHOOSE i \in FencePositions(d) : \A j \in FencePositions(d) : i <= j)

\* docs[..i].ends_with(backtick)
EndsWithBacktick(d, i) == i > 0 /\ d[i] = Backtick

\* while docs[..i].ends_with(backtick) { i -= 1; }
RECURSIVE ScanBack(_, _)
ScanBack(d, i) ==
    IF EndsWithBacktick(d, i) THEN ScanBack(d, i - 1) ELSE i

\* fn split_details_and_example(docs: &str) -> (&str, Option<&str>)
SplitOf(d) ==
    LET found == Find(d)
    IN IF found = OptNone
       THEN [details |-> StrOf(d), example |-> OptNone]
       ELSE LET i == ScanBack(d, found.v)
            IN [details |-> StrOf(SubSeq(d, 1, i)),
                example |-> OptSome(StrOf(SubSeq(d, i + 1, Len(d))))]

\* split_details_and_example(docs)
SplitDetailsAndExample(d) ==
    /\ docs' = StrOf(d)
    /\ details' = SplitOf(d).details
    /\ example' = SplitOf(d).example
    /\ UNCHANGED otherThanSplit

SplitIdle ==
    /\ docs = NoDocs
    /\ details = NoDetails
    /\ example = NoExample

\* ------------------------------------------------------------- param_model
\* src/crates/typst-docs/src/lib.rs. Of the ParamModel only types and
\* strings are modelled, and of a StrParam only its string.

NoInfo == [kind |-> "no_info"]

\* CastInfo
AnyInfo == [kind |-> "any"]
TypeInfo(name) == [kind |-> "type", name |-> name]
ValueInfo(v) == [kind |-> "value", v |-> v]
UnionInfo(options) == [kind |-> "union", of |-> options]

\* The order of types in the documentation.
TYPE_ORDER ==
    <<"any", "none", "auto", "bool", "int", "float", "length", "angle",
      "ratio", "relative", "fraction", "color", "gradient", "datetime",
      "duration", "str", "bytes", "regex", "label", "content", "array",
      "dict", "func", "args", "selector", "location", "direction",
      "alignment", "alignment2d", "stroke">>

\* usize::MAX as the key of a type TYPE_ORDER does not list: on every target
\* it is above every position of TYPE_ORDER, which the scaled-down UsizeMax
\* is not, so the largest integer TLC has stands for it here.
PositionNotFound == 2147483647

\* A faulty variant of TypeIndex: a type TYPE_ORDER does not list gets the
\* default key 0.
TypeIndexUnknownFirst(ty) ==
    IF ty \in Range(TYPE_ORDER)
    THEN (CHOOSE i \in DOMAIN TYPE_ORDER : TYPE_ORDER[i] = ty) - 1
    ELSE 0

\* fn type_index(ty: &str) -> usize
TypeIndex(ty) ==
    IF ty \in Range(TYPE_ORDER)
    THEN (CHOOSE i \in DOMAIN TYPE_ORDER : TYPE_ORDER[i] = ty) - 1
    ELSE PositionNotFound

\* One step of a stable sort: x goes behind every element whose key is not
\* above its own.
InsertByKey(sorted, x) ==
    LET before == {i \in 0..Len(sorted) :
                      \A j \in 1..i : TypeIndex(sorted[j]) <= TypeIndex(x)}
        at == CHOOSE i \in before : \A j \in before : j <= i
    IN SubSeq(sorted, 1, at) \o <<x>> \o SubSeq(sorted, at + 1, Len(sorted))

\* types.sort_by_key(|ty| type_index(ty)): the sort is stable.
RECURSIVE SortByKey(_)
SortByKey(seq) ==
    IF seq = <<>> THEN <<>>
    ELSE InsertByKey(SortByKey(SubSeq(seq, 1, Len(seq) - 1)), seq[Len(seq)])

\* fn casts(resolver, types, strings, info), on acc = [types, strings]
RECURSIVE Casts(_, _)
Casts(acc, ci) ==
    CASE ci.kind = "any" -> [acc EXCEPT !.types = Append(@, "any")]
      [] ci.kind = "value" /\ ci.v.kind = "str" ->
            [acc EXCEPT !.strings = Append(@, ci.v.v)]
      [] ci.kind = "value" /\ ci.v.kind # "str" -> acc
      [] ci.kind = "type" -> [acc EXCEPT !.types = Append(@, ci.name)]
      [] ci.kind = "union" ->
            IF ci.of = <<>> THEN acc
            ELSE Casts(Casts(acc, Head(ci.of)), UnionInfo(Tail(ci.of)))

\* The types and strings of param_model's result.
ParamModelOf(ci) ==
    LET acc == Casts([types |-> <<>>, strings |-> <<>>], ci)
        pushed == IF acc.strings # <<>> /\ "str" \notin Range(acc.types)
                  THEN Append(acc.types, "str")
                  ELSE acc.types
    IN [types |-> SortByKey(pushed), strings |-> acc.strings]

\* The options of the cast descriptions: any, types TYPE_ORDER lists and
\* types it does not list, string literals, another literal, and unions.
LeafInfos ==
    {AnyInfo, TypeInfo("str"), TypeInfo("content"), TypeInfo("module"),
     TypeInfo("symbol"), ValueInfo(ValueStr("left")),
     ValueInfo(ValueStr("right")), ValueInfo(ValueInt(1))}

NestedInfos ==
    {UnionInfo(<<>>),
     UnionInfo(<<ValueInfo(ValueStr("right")), ValueInfo(ValueStr("left"))>>),
     UnionInfo(<<TypeInfo("symbol"), TypeInfo("str")>>),
     UnionInfo(<<AnyInfo, UnionInfo(<<TypeInfo("module"), ValueInfo(ValueInt(1))>>)>>)}

CastInfos ==
    LeafInfos \cup {UnionInfo(o) : o \in SeqsUpTo(LeafInfos \cup NestedInfos, MaxOptions)}

\* param_model(resolver, info)
ParamModel(ci) ==
    /\ info' = ci
    /\ types' = ParamModelOf(ci).types
    /\ strings' = ParamModelOf(ci).strings
    /\ UNCHANGED otherThanParam

ParamIdle ==
    /\ info = NoInfo
    /\ types = <<>>
    /\ strings = <<>>

\* -------------------------------------------------- GROUPS, LIBRARY, FONTS
\* src/crates/typst-docs/src/lib.rs. A once_cell::sync::Lazy runs its
\* initializer in the first thread that dereferences it and makes every
\* other thread that dereferences it meanwhile wait for the value.

Threads == 1..NumThreads
Registries == {"GROUPS", "LIBRARY", "FONTS"}

NoFile == [kind |-> "no_file"]
FileOf(groups) == [kind |-> "file", groups |-> groups]
Unset == [kind |-> "unset"]
NothingSeen == [reg |-> "none", value |-> Unset]
NoThread == 0

\* Module
ModuleOf(scope) == [kind |-> "module", scope |-> scope]

\* The scope of the calc module and the global scope, as (name, value) in
\* the order the scope iterates in.
CalcScope ==
    <<<<"abs", ValueFunc("abs")>>, <<"pi", ValueInt(3)>>, <<"pow", ValueFunc("pow")>>>>

GlobalScope ==
    <<<<"calc", ModuleOf(CalcScope)>>, <<"emph", ValueFunc("emph")>>,
      <<"page", ValueFunc("page")>>, <<"red", ValueInt(1)>>>>

\* LIBRARY's initializer: the built library with the three page styles set.
LibraryValue ==
    [kind |-> "library",
     global |-> ModuleOf(GlobalScope),
     styles |-> <<"page.width", "page.height", "page.margin">>]

\* FONTS's initializer: the book of the fonts of FONT_DIR, and the fonts.
FontsValue ==
    [kind |-> "fonts", book |-> {"font0", "font1"}, fonts |-> <<"font0", "font1">>]

\* parent.scope().get(name)
ScopeGet(module, name) ==
    LET hits == {i \in DOMAIN module.scope : module.scope[i][1] = name}
    IN IF hits = {} THEN OptNone
       ELSE OptSome(module.scope[CHOOSE i \in hits : TRUE][2])

\* fn get_module(parent, name) -> StrResult<&Module>
GetModule(parent, name) ==
    LET got == ScopeGet(parent, name)
    IN IF got # OptNone /\ got.v.kind = "module"
       THEN [ok |-> TRUE, module |-> got.v]
       ELSE [ok |-> FALSE, err |-> "module doesn't contain module"]

\* GroupData::module: from the library's global module down the path. The
\* paths of the groups file name modules, so the unwrap does not panic.
RECURSIVE Follow(_, _)
Follow(focus, path) ==
    IF path = <<>> THEN focus
    ELSE Follow(GetModule(focus, Head(path)).module, Tail(path))

GroupModule(group, lib) == Follow(lib.global, group.path)

\* The names of the functions of a module's scope, in the scope's order.
IsFuncEntry(entry) == entry[2].kind = "func"

FunctionNames(module) ==
    LET funcs == SelectSeq(module.scope, IsFuncEntry)
    IN [i \in 1..Len(funcs) |-> funcs[i][1]]

\* A faulty variant of FillFilter: an empty filter is left empty.
FillFilterKeepsEmpty(group, lib) == group

\* The body of the loop of GROUPS's initializer.
FillFilter(group, lib) ==
    IF group.filter = <<>>
    THEN [group EXCEPT !.filter = FunctionNames(GroupModule(group, lib))]
    ELSE group

\* GroupData, of which name, path and filter are modelled.
GroupDatas ==
    {[name |-> "calc", path |-> <<"calc">>, filter |-> <<>>],
     [name |-> "utility", path |-> <<>>, filter |-> <<"emph">>]}

\* What reference/groups.yml may hold.
GroupFiles == SeqsUpTo(GroupDatas, MaxGroups)

\* The frame of a thread that dereferences a registry: at is force while it
\* is in Lazy::force, init while it runs the initializer, fill while the
\* initializer of GROUPS is in group.module().
Frame(reg, at, groups, i) == [reg |-> reg, at |-> at, groups |-> groups, i |-> i]
ForceFrame(reg) == Frame(reg, "force", <<>>, 0)

InAccess(t) == stack[t] # <<>>
Top(t) == stack[t][Len(stack[t])]
WithTop(t, f) == [stack EXCEPT ![t] = SubSeq(stack[t], 1, Len(stack[t]) - 1) \o <<f>>]

\* A thread dereferences a registry, its first: *GROUPS, *LIBRARY, *FONTS.
Deref(t, reg) ==
    /\ ~InAccess(t)
    /\ seen[t] = NothingSeen
    /\ stack' = [stack EXCEPT ![t] = <<ForceFrame(reg)>>]
    /\ UNCHANGED <<cell, owner, value, runs, seen, yml>>
    /\ UNCHANGED otherThanLazy

\* Lazy::force finds the cell empty: this thread runs the initializer.
ForceRunInit(t) ==
    /\ InAccess(t)
    /\ Top(t).at = "force"
    /\ cell[Top(t).reg] = "uninit"
    /\ cell' = [cell EXCEPT ![Top(t).reg] = "running"]
    /\ owner' = [owner EXCEPT ![Top(t).reg] = t]
    /\ runs' = [runs EXCEPT ![Top(t).reg] = @ + 1]
    /\ stack' = WithTop(t, [Top(t) EXCEPT !.at = "init"])
    /\ UNCHANGED <<value, seen, yml>>
    /\ UNCHANGED otherThanLazy

\* Lazy::force finds the value (at once, or after waiting for the thread
\* that ran the initializer) and returns the reference to it.
ForceReturn(t) ==
    /\ InAccess(t)
    /\ Top(t).at = "force"
    /\ cell[Top(t).reg] = "done"
    /\ seen' = [seen EXCEPT ![t] = [reg |-> Top(t).reg, value |-> value[Top(t).reg]]]
    /\ stack' = [stack EXCEPT ![t] = SubSeq(@, 1, Len(@) - 1)]
    /\ UNCHANGED <<cell, owner, value, runs, yml>>
    /\ UNCHANGED otherThanLazy

\* The initializer ends: the cell holds its value from now on.
Finish(t, v) ==
    /\ cell' = [cell EXCEPT ![Top(t).reg] = "done"]
    /\ value' = [value EXCEPT ![Top(t).reg] = v]
    /\ stack' = WithTop(t, ForceFrame(Top(t).reg))

\* LIBRARY's initializer.
InitLibrary(t) ==
    /\ InAccess(t)
    /\ Top(t).reg = "LIBRARY"
    /\ Top(t).at = "init"
    /\ Finish(t, LibraryValue)
    /\ UNCHANGED <<owner, runs, seen, yml>>
    /\ UNCHANGED otherThanLazy

\* FONTS's initializer.
InitFonts(t) ==
    /\ InAccess(t)
    /\ Top(t).reg = "FONTS"
    /\ Top(t).at = "init"
    /\ Finish(t, FontsValue)
    /\ UNCHANGED <<owner, runs, seen, yml>>
    /\ UNCHANGED otherThanLazy

\* GROUPS's initializer: let mut groups = yaml("reference/groups.yml")
LoadGroups(t, file) ==
    /\ InAccess(t)
    /\ Top(t).reg = "GROUPS"
    /\ Top(t).at = "init"
    /\ Top(t).i = 0
    /\ stack' = WithTop(t, [Top(t) EXCEPT !.groups = file, !.i = 1])
    /\ yml' = FileOf(file)
    /\ UNCHANGED <<cell, owner, value, runs, seen>>
    /\ UNCHANGED otherThanLazy

\* GROUPS's initializer, the head of the loop: a group with a filter is
\* passed over, for one without group.module() dereferences LIBRARY.
NextGroup(t) ==
    /\ InAccess(t)
    /\ Top(t).reg = "GROUPS"
    /\ Top(t).at = "init"
    /\ Top(t).i \in 1..Len(Top(t).groups)
    /\ IF Top(t).groups[Top(t).i].filter = <<>>
       THEN stack' = [stack EXCEPT ![t] =
                         SubSeq(@, 1, Len(@) - 1)
                         \o <<[Top(t) EXCEPT !.at = "fill"], ForceFrame("LIBRARY")>>]
       ELSE stack' = WithTop(t, [Top(t) EXCEPT !.i = @ + 1])
    /\ UNCHANGED <<cell, owner, value, runs, seen, yml>>
    /\ UNCHANGED otherThanLazy

\* GROUPS's initializer, the body of the loop, with LIBRARY at hand.
FillGroup(t) ==
    /\ InAccess(t)
    /\ Top(t).reg = "GROUPS"
    /\ Top(t).at = "fill"
    /\ stack' = WithTop(t, [Top(t) EXCEPT
                   !.groups[Top(t).i] = FillFilter(@, seen[t].value),
                   !.i = @ + 1,
                   !.at = "init"])
    /\ UNCHANGED <<cell, owner, value, runs, seen, yml>>
    /\ UNCHANGED otherThanLazy

\* GROUPS's initializer returns groups.
InitGroups(t) ==
    /\ InAccess(t)
    /\ Top(t).reg = "GROUPS"
    /\ Top(t).at = "init"
    /\ Top(t).i = Len(Top(t).groups) + 1
    /\ Finish(t, [kind |-> "groups", groups |-> Top(t).groups])
    /\ UNCHANGED <<owner, runs, seen, yml>>
    /\ UNCHANGED otherThanLazy

LazyIdle ==
    /\ cell = [r \in Registries |-> "uninit"]
    /\ owner = [r \in Registries |-> NoThread]
    /\ value = [r \in Registries |-> Unset]
    /\ runs = [r \in Registries |-> 0]
    /\ stack = [t \in Threads |-> <<>>]
    /\ seen = [t \in Threads |-> NothingSeen]
    /\ yml = NoFile

\* ------------------------------------------------------------ specification

EnumInit ==
    /\ args = NoArgs
    /\ node = NoNode
    /\ styles = NoStyles
    /\ regions = NoRegions
    /\ pc = "idle"
    /\ cells = <<>>
    /\ number = 1
    /\ idx = 1
    /\ shown = <<>>
    /\ calls = <<>>
    /\ result = NoResult
    /\ prev = NoPrev

CastIdle ==
    /\ castIn = NoValue
    /\ castOut = NoResult

\* The build fixes the width of usize.
BuildInit == usizeBits \in UsizeWidths

Init == BuildInit /\ EnumInit /\ CastIdle /\ UrlifyIdle /\ SplitIdle /\ ParamIdle /\ LazyIdle

EnumNext ==
    \/ node = NoNode /\ \E a \in ArgSets : Construct(a)
    \/ node = NoNode /\ \E t \in BOOLEAN, items \in MarkupLists : Realize(t, items)
    \/ pc = "idle" /\ \E name \in FieldNames : Field(name)
    \/ pc = "idle" /\ \E st \in StyleChains, rg \in Regions : LayoutBegin(st, rg)
    \/ LayoutAgain
    \/ LayoutItem
    \/ LayoutGrid
    \/ LayoutReturn

Next == EnumNext

Spec == Init /\ [][Next]_vars

\* Values are cast to EnumNumbering, one after the other.
CastNext == \E sv \in CastValues : CastValue(sv)

SpecCast == Init /\ [][CastNext]_vars

\* A title is turned into an URL fragment, and the fragment into a fragment.
UrlifyNext ==
    \/ title = NoTitle /\ \E t \in Titles : Urlify(t)
    \/ UrlifyAgain

SpecUrlify == Init /\ [][UrlifyNext]_vars

\* A docs string is split into details and example.
SplitNext == docs = NoDocs /\ \E d \in DocStrings : SplitDetailsAndExample(d)

SpecSplit == Init /\ [][SplitNext]_vars

\* The model of a parameter is produced from its cast description.
ParamNext == info = NoInfo /\ \E ci \in CastInfos : ParamModel(ci)

SpecParam == Init /\ [][ParamNext]_vars

\* What a thread does once it is in an access.
ThreadStep(t) ==
    \/ ForceRunInit(t)
    \/ ForceReturn(t)
    \/ InitLibrary(t)
    \/ InitFonts(t)
    \/ \E file \in GroupFiles : LoadGroups(t, file)
    \/ NextGroup(t)
    \/ FillGroup(t)
    \/ InitGroups(t)

LazyNext ==
    \E t \in Threads :
        \/ \E reg \in Registries : Deref(t, reg)
        \/ ThreadStep(t)

\* Every thread dereferences a registry, at any time; the scheduler lets
\* every thread that can go on do so.
SpecLazy == Init /\ [][LazyNext]_vars /\ \A t \in Threads : WF_vars(ThreadStep(t))

\* ------------------------------------------------------------------ claims

\* The node was built by construct and nothing has replaced it.
Constructed == args # NoArgs /\ node # NoNode

\* The start value construct used.
StartOf(a) == NamedOr(a.start, 1)

\* C1 as stated: a constructed node holds exactly the positional bodies in
\* their order, and its i-th item (0-based) carries the number start + i.
C1_NumbersAreStartPlusIndex ==
    Constructed =>
        /\ Len(node.items) = Len(args.positional)
        /\ \A i \in 1..Len(node.items) :
              /\ node.items[i].body = args.positional[i]
              /\ node.items[i].number = StartOf(args) + (i - 1)

\* C1: a constructed node holds exactly the positional bodies in their order,
\* and its i-th item (0-based) carries the number start + i, capped at the
\* largest usize (the increment saturates); the default start is 1 and the
\* default for tight is true.
C1_NumbersAreStartPlusIndexSaturating ==
    Constructed =>
        /\ Len(node.items) = Len(args.positional)
        /\ \A i \in 1..Len(node.items) :
              /\ node.items[i].body = args.positional[i]
              /\ node.items[i].number = Min(StartOf(args) + (i - 1), UsizeMax)
        /\ (args.start = <<>> /\ node.items # <<>>) => node.items[1].number = 1
        /\ node.tight = NamedOr(args.tight, TRUE)

\* start = 3 with three items gives 3, 4, 5.
C1_Witness ==
    /\ Constructed
    /\ args.start = <<3>>
    /\ Len(args.positional) = 3
    /\ [i \in 1..3 |-> node.items[i].number] = <<3, 4, 5>>
    /\ args.positional[1] # args.positional[2]

\* The numbers layout has handed to resolve so far: an explicit number is
\* shown as it is, an unnumbered item shows the number after the preceding
\* item's, or 1 if it is the first.
ShownPlusOne ==
    \A i \in 1..Len(shown) :
        shown[i] = IF node.items[i].number # 0 THEN node.items[i].number
                   ELSE IF i = 1 THEN 1
                   ELSE shown[i - 1] + 1

\* The same, the number after p being p + 1 capped at the largest usize.
ShownPlusOneSaturating ==
    \A i \in 1..Len(shown) :
        shown[i] = IF node.items[i].number # 0 THEN node.items[i].number
                   ELSE IF i = 1 THEN 1
                   ELSE Min(shown[i - 1] + 1, UsizeMax)

\* Under a pattern numbering the marker cell of item i shows shown[i].
MarkersShowNumbers ==
    (pc # "idle" /\ styles.numbering.kind = "Pattern") =>
        /\ Len(cells) = 4 * Len(shown)
        /\ \A i \in 1..Len(shown) :
              cells[4 * i - 2].content = PatternText(styles.numbering.pattern, shown[i])

\* C2 as stated: an item with explicit number n is displayed with n, an
\* unnumbered item with the preceding item's displayed number + 1, or 1 if it
\* is the first.
C2_UnnumberedIsPreviousPlusOne ==
    pc # "idle" => (ShownPlusOne /\ MarkersShowNumbers)

\* C2: an item with explicit number n is displayed with n, an unnumbered item
\* with the preceding item's displayed number + 1 capped at the largest usize
\* (the increment saturates), or 1 if it is the first.
C2_UnnumberedIsPreviousPlusOneSaturating ==
    pc # "idle" => (ShownPlusOneSaturating /\ MarkersShowNumbers)

\* An explicit number is followed by two unnumbered items, which continue
\* from it.
C2_Witness ==
    /\ pc = "done"
    /\ Len(node.items) = 3
    /\ node.items[1].number = 2
    /\ node.items[2].number = 0
    /\ node.items[3].number = 0
    /\ shown = <<2, 3, 4>>

\* The grid the finished call has laid out.
GridOf(r) == r.grid

\* C3: for a node with k items layout builds a grid of exactly 4*k cells in
\* item order, cells 4i..4i+3 being: empty, the resolved numbering of item i,
\* empty, the body of item i (marker and body under the item's style map); the
\* column tracks are [relative(indent), auto, relative(body-indent), auto] and
\* only a row gutter is set.
C3_GridCells ==
    (pc = "done" /\ result.kind = "grid_layout") =>
        LET g == GridOf(result)
            k == Len(node.items)
        IN /\ Len(g.cells) = 4 * k
           /\ Len(shown) = k
           /\ \A i \in 1..k :
                 /\ g.cells[4 * i - 3] = EmptyContent
                 /\ g.cells[4 * i - 2] =
                        StyledWithMap(Resolve(styles.numbering, shown[i]).v, node.items[i].map)
                 /\ g.cells[4 * i - 1] = EmptyContent
                 /\ g.cells[4 * i] = StyledWithMap(node.items[i].body, node.items[i].map)
           /\ g.tracks.x = <<TrackRelative(styles.indent), TrackAuto,
                             TrackRelative(styles.body_indent), TrackAuto>>
           /\ g.tracks.y = <<>>
           /\ g.gutter.x = <<>>
           /\ Len(g.gutter.y) = 1

\* A grid of three items with different bodies has been laid out.
C3_Witness ==
    /\ pc = "done"
    /\ result.kind = "grid_layout"
    /\ Len(node.items) = 3
    /\ Len(result.grid.cells) = 12
    /\ node.items[1].body # node.items[2].body

\* The items whose resolve has been called in the current layout call.
Processed == IF pc = "done" /\ result.kind = "err" THEN idx ELSE idx - 1

\* C4 as stated: under a callback numbering the callback is invoked exactly
\* once per item, in item order, with a single argument equal to the item's
\* displayed number, and never for an empty list.
C4_CallbackOncePerItem ==
    (pc # "idle" /\ styles.numbering.kind = "Func") =>
        /\ Len(shown) = Processed
        /\ calls = [i \in 1..Len(shown) |->
                       [span |-> styles.numbering.span, items |-> <<ValueInt(shown[i])>>]]
        /\ node.items = <<>> => calls = <<>>

\* The part of C4 that holds of the code: one invocation per item, in item
\* order, with the displayed number reinterpreted as an i64.
CallbackOncePerItemAsI64 ==
    (pc # "idle" /\ styles.numbering.kind = "Func") =>
        /\ Len(shown) = Processed
        /\ calls = [i \in 1..Len(shown) |->
                       [span |-> styles.numbering.span, items |-> <<ValueInt(AsI64(shown[i]))>>]]
        /\ node.items = <<>> => calls = <<>>

\* The invocations of this call on which the callback raised an error.
FailedCalls ==
    {j \in 1..Len(calls) : ~CallDetached(styles.numbering.func, calls[j]).ok}

\* C5: if the callback returns an error for some item, layout returns that
\* same error unchanged, lays out no grid, and invokes the callback for no
\* later item (the failing invocation is the last, and happened once);
\* without an error the grid is laid out.
C5_CallbackErrorPropagates ==
    (pc = "done" /\ styles.numbering.kind = "Func") =>
        IF FailedCalls # {}
        THEN /\ FailedCalls = {Len(calls)}
             /\ result = [kind |-> "err",
                          err |-> CallDetached(styles.numbering.func, calls[Len(calls)]).err]
             /\ Len(calls) = idx
             /\ Len(cells) = 4 * (idx - 1)
        ELSE /\ result.kind = "grid_layout"
             /\ Len(calls) = Len(node.items)

\* The callback failed on the second of three items.
C5_Witness ==
    /\ pc = "done"
    /\ result.kind = "err"
    /\ Len(node.items) = 3
    /\ Len(calls) = 2
    /\ Len(cells) = 4

\* The numbering in force at an item: the list's chain plus the item's map.
EffectiveNumbering(st, map) ==
    IF \E j \in 1..Len(map) : map[j].property = "enum.numbering"
    THEN LET j == CHOOSE k \in 1..Len(map) : map[k].property = "enum.numbering"
         IN map[j].value
    ELSE st.numbering

\* C6 as stated: each item's marker is resolved with the numbering of the
\* style chain as of the item (the list's chain plus the item's style map).
C6_MarkerUsesItemChain ==
    pc # "idle" =>
        \A i \in 1..Len(shown) :
            4 * i <= Len(cells) =>
                cells[4 * i - 2].content =
                    Resolve(EffectiveNumbering(styles, node.items[i].map), shown[i]).v

C8_RowGutter ==
    (pc = "done" /\ result.kind = "grid_layout") =>
        result.grid.gutter.y =
            << IF node.tight THEN styles.leading
               ELSE IF styles.spacing.kind # "auto" THEN styles.spacing
               ELSE styles.below.amount >>

\* A wide list laid out with automatic spacing.
C8_Witness ==
    /\ pc = "done"
    /\ result.kind = "grid_layout"
    /\ ~node.tight
    /\ styles.spacing.kind = "auto"
    /\ result.grid.gutter.y = <<styles.below.amount>>

\* C9 as stated: field returns the empty option for names other than "tight"
\* and "items", the tight flag for "tight", and for "items" one dictionary
\* per item in order whose "number" is the item's number (none without one)
\* and whose "body" is the item's body.
C9_FieldReflectsNode ==
    result.kind = "field" =>
        result.value =
            CASE result.name = "tight" -> OptSome(ValueBool(node.tight))
              [] result.name = "items" ->
                    OptSome(ValueArray([i \in 1..Len(node.items) |->
                        ValueDict(IF node.items[i].number = 0 THEN ValueNone
                                  ELSE ValueInt(node.items[i].number),
                                  ValueContent(node.items[i].body))]))
              [] OTHER -> OptNone

\* The type names describe() lists.
DescribedTypes == {Describe.of[i].name : i \in 1..Len(Describe.of)}

\* C10: the cast accepts exactly the shapes describe() lists (string, then
\* function): a string yields a Pattern when it parses and an error result
\* when it is malformed; a function yields Func with the value's span; every
\* other value yields a cast error (a result, never a panic).
C10_CastAcceptsDescribedShapes ==
    castIn # NoValue =>
        LET v == castIn.v
        IN /\ [i \in 1..Len(Describe.of) |-> Describe.of[i].name] = <<"string", "function">>
           /\ castOut.ok \in BOOLEAN
           /\ castOut.ok => TypeName(v) \in DescribedTypes
           /\ v.kind = "str" =>
                 IF ParsePattern(v.v).ok
                 THEN castOut = [ok |-> TRUE, v |-> NumberingPattern(ParsePattern(v.v).v)]
                 ELSE castOut = [ok |-> FALSE, err |-> ParsePattern(v.v).err]
           /\ v.kind = "func" => castOut = [ok |-> TRUE, v |-> NumberingFunc(v.v, castIn.span)]
           /\ v.kind \notin {"str", "func"} =>
                 /\ ~castOut.ok
                 /\ castOut.err = [kind |-> "cast_error", expected |-> Describe, found |-> TypeName(v)]

\* A malformed pattern string was cast and gave the parse error.
C10_Witness ==
    /\ castIn # NoValue
    /\ castIn.v.kind = "str"
    /\ Len(castIn.v.v) = 2
    /\ ~castOut.ok
    /\ castOut.err.kind = "parse_error"

\* C15 as stated: is(value) and cast(value) agree: every value is() accepts
\* is cast successfully, and every value cast() accepts satisfies is().
C15_IsAgreesWithCast ==
    castIn # NoValue => (Is(castIn) <=> castOut.ok)

\* The numbers field("items") exposes, as the integers they are.
ExposedNumbers ==
    [i \in 1..Len(result.value.v.v) |-> result.value.v.v[i].number]

\* C16 as stated: the integer handed to the callback and the integer exposed
\* as "number" by field("items") equal the item's number and are positive.
C16_HandedNumberIsItemsNumber ==
    /\ (pc # "idle" /\ styles.numbering.kind = "Func") =>
          \A j \in 1..Len(calls) :
              /\ calls[j].items[1] = ValueInt(shown[j])
              /\ calls[j].items[1].v >= 1
    /\ (result.kind = "field" /\ result.name = "items") =>
          \A i \in 1..Len(node.items) :
              node.items[i].number # 0 =>
                  /\ ExposedNumbers[i] = ValueInt(node.items[i].number)
                  /\ ExposedNumbers[i].v >= 1

\* Item i of the list is unnumbered and not the first.
FollowsUnnumbered(i) == i > 1 /\ node.items[i].number = 0

\* C17: the running counter never wraps and never is zero: the numbers
\* construct assigns and layout shows are at least 1 and at most usize::MAX,
\* never decrease from an item to the unnumbered (in construct: to the next)
\* item after it, and stay at usize::MAX once it is reached; the increment
\* is never an error.
C17_CounterSaturates ==
    /\ number \in NonZeroUsize
    /\ Constructed =>
          \A i \in 1..Len(node.items) :
              /\ node.items[i].number \in NonZeroUsize
              /\ i > 1 => node.items[i].number >= node.items[i - 1].number
              /\ (i > 1 /\ node.items[i - 1].number = UsizeMax) =>
                    node.items[i].number = UsizeMax
    /\ pc # "idle" =>
          \A i \in 1..Len(shown) :
              /\ shown[i] \in NonZeroUsize
              /\ FollowsUnnumbered(i) => shown[i] >= shown[i - 1]
              /\ (FollowsUnnumbered(i) /\ shown[i - 1] = UsizeMax) => shown[i] = UsizeMax
    /\ (pc = "done" /\ result.kind = "err") => result.err.kind = "callback_error"

\* Layout reached usize::MAX and showed it again for the two unnumbered items
\* that follow.
C17_Witness ==
    /\ pc = "done"
    /\ result.kind = "grid_layout"
    /\ Len(shown) = 3
    /\ node.items[1].number = UsizeMax
    /\ node.items[2].number = 0
    /\ node.items[3].number = 0
    /\ shown = <<UsizeMax, UsizeMax, UsizeMax>>

\* The chars of an URL fragment: [a-z0-9-].
SlugChars == Range(LowerCase) \cup Range(Digits) \cup {"-"}

\* Char d is char c with an ASCII letter lowercased, an ASCII digit kept and
\* every other char replaced by '-'.
SlugCharOf(c, d) ==
    /\ \A k \in DOMAIN UpperCase :
          c \in {UpperCase[k], LowerCase[k]} => d = LowerCase[k]
    /\ c \in Range(Digits) => d = c
    /\ c \notin Range(UpperCase) \cup Range(LowerCase) \cup Range(Digits) => d = "-"

\* C12: for a title the match does not name, urlify's result has as many
\* chars as the title, each the title's char with ASCII letters lowercased,
\* ASCII digits kept and every other char turned into '-', so it is made of
\* [a-z0-9-] only; for a title the match names the result is its fixed slug;
\* and urlify of the result is the result.
C12_UrlifyShapeAndIdempotent ==
    title # NoTitle =>
        /\ title.chars \notin HardCodedTitles =>
              /\ Len(slug.chars) = Len(title.chars)
              /\ \A i \in 1..Len(title.chars) :
                    SlugCharOf(title.chars[i], slug.chars[i])
              /\ Range(slug.chars) \subseteq SlugChars
        /\ \A i \in DOMAIN HardCoded :
              title.chars = HardCoded[i][1] => slug.chars = HardCoded[i][2]
        /\ slugAgain # NoSlug => slugAgain = slug

\* A title of an upper-case letter, a digit and a space went through urlify
\* twice.
C12_Witness ==
    /\ title = StrOf(<<"A", "7", " ">>)
    /\ slug = StrOf(<<"a", "7", "-">>)
    /\ slugAgain = StrOf(<<"a", "7", "-">>)

Fence == <<Backtick, Backtick, Backtick>>

\* The string has the fence somewhere.
HasFence(d) == \E i \in 0..Len(d) : FenceAt(d, i)

\* C13: docs without a fence come back whole, with no example; otherwise
\* the split is at the first fence (no fence lies before it): the example
\* starts with the fence, the details have no fence and do not end with a
\* backtick, and details followed by example are the docs.
C13_SplitAtFirstFence ==
    docs # NoDocs =>
        IF ~HasFence(docs.chars)
        THEN details = docs /\ example = OptNone
        ELSE /\ example # OptNone
             /\ FenceAt(example.v.chars, 0)
             /\ ~HasFence(details.chars)
             /\ \A i \in 0..(Len(details.chars) - 1) : ~FenceAt(docs.chars, i)
             /\ FenceAt(docs.chars, Len(details.chars))
             /\ ~(details.chars # <<>> /\ details.chars[Len(details.chars)] = Backtick)
             /\ details.chars \o example.v.chars = docs.chars

\* Docs with text, a fence and a second fence were split at the first.
C13_Witness ==
    /\ docs = StrOf(<<"a">> \o Fence \o Fence)
    /\ details = StrOf(<<"a">>)
    /\ example = OptSome(StrOf(Fence \o Fence))

\* The options of a cast description that are no unions, in declaration
\* order, the options of nested unions in their place.
RECURSIVE Options(_)
Options(ci) ==
    IF ci.kind # "union" THEN <<ci>>
    ELSE IF ci.of = <<>> THEN <<>>
    ELSE Options(Head(ci.of)) \o Options(UnionInfo(Tail(ci.of)))

IsTypeOption(o) == o.kind \in {"any", "type"}
IsStringLiteral(o) == o.kind = "value" /\ o.v.kind = "str"
Listed(ty) == \E i \in DOMAIN TYPE_ORDER : TYPE_ORDER[i] = ty
Unlisted(ty) == ~Listed(ty)
Position(ty) == CHOOSE i \in DOMAIN TYPE_ORDER : TYPE_ORDER[i] = ty
Count(seq, x) == Cardinality({i \in DOMAIN seq : seq[i] = x})

\* The names of the any and type options, in declaration order.
TypeOptionNames(ci) ==
    LET os == SelectSeq(Options(ci), IsTypeOption)
    IN [i \in 1..Len(os) |-> IF os[i].kind = "any" THEN "any" ELSE os[i].name]

\* C14: the types list has one entry per any or type option of the (nested)
\* union, and one "str" more when there is a string literal and no str
\* option, so it has "str" whenever there is a string literal; strings are
\* the string literals in declaration order, other literals left out; and
\* types are in TYPE_ORDER's order, the names TYPE_ORDER does not list last,
\* in their declaration order.
C14_TypesAndStrings ==
    info # NoInfo =>
        LET named == TypeOptionNames(info)
            lits == SelectSeq(Options(info), IsStringLiteral)
            extra(n) == IF n = "str" /\ lits # <<>> /\ Count(named, "str") = 0
                        THEN 1 ELSE 0
        IN /\ \A n \in Range(named) \cup Range(types) :
                 Count(types, n) = Count(named, n) + extra(n)
           /\ lits # <<>> => "str" \in Range(types)
           /\ strings = [i \in 1..Len(lits) |-> lits[i].v.v]
           /\ \A i, j \in DOMAIN types :
                 (i < j /\ Listed(types[j])) =>
                     /\ Listed(types[i])
                     /\ Position(types[i]) <= Position(types[j])
           /\ SelectSeq(types, Unlisted) = SelectSeq(named, Unlisted)

\* A union with two types TYPE_ORDER does not list, a string literal and a
\* nested union with any and another literal was processed.
C14_Witness ==
    /\ info = UnionInfo(<<TypeInfo("symbol"), ValueInfo(ValueStr("left")),
                          UnionInfo(<<AnyInfo,
                                      UnionInfo(<<TypeInfo("module"),
                                                  ValueInfo(ValueInt(1))>>)>>)>>)
    /\ types = <<"any", "str", "symbol", "module">>
    /\ strings = <<"left">>

\* The initializer of a registry was entered at most once, and once if the
\* registry was ever dereferenced far enough to need it.
InitializedOnce ==
    \A r \in Registries :
        /\ runs[r] <= 1
        /\ cell[r] # "uninit" => runs[r] = 1
        /\ cell[r] = "uninit" => value[r] = Unset

\* What an access returned is the value the registry holds.
ReadersAgree ==
    \A t \in Threads :
        seen[t] # NothingSeen =>
            /\ cell[seen[t].reg] = "done"
            /\ seen[t].value = value[seen[t].reg]
            /\ seen[t].value # Unset

\* GROUPS holds the groups of the file, those without a filter with the
\* names of the functions of their module as filter.
GroupsFilled ==
    cell["GROUPS"] = "done" =>
        /\ value["GROUPS"].kind = "groups"
        /\ Len(value["GROUPS"].groups) = Len(yml.groups)
        /\ \A i \in 1..Len(yml.groups) :
              LET g == value["GROUPS"].groups[i]
                  read == yml.groups[i]
              IN /\ g.name = read.name
                 /\ g.path = read.path
                 /\ read.filter # <<>> => g.filter = read.filter
                 /\ read.filter = <<>> =>
                       g.filter = FunctionNames(Follow(LibraryValue.global, g.path))

\* A step leaves a registry that holds its value as it is.
NeverMutated ==
    \A r \in Registries :
        cell[r] = "done" => (cell'[r] = "done" /\ value'[r] = value[r])

\* C11: each registry's initializer is entered at most once, exactly once
\* when the registry is dereferenced, under every interleaving of the
\* threads; every access returns the one value the registry holds (GROUPS
\* with every empty filter filled with the function names of the group's
\* module); that value never changes; and the initialization of GROUPS,
\* which waits for LIBRARY, and every access come to an end.
C11_RegistriesInitializedOnce ==
    /\ [](InitializedOnce /\ ReadersAgree /\ GroupsFilled)
    /\ [][NeverMutated]_vars
    /\ (cell["GROUPS"] = "running") ~> (cell["GROUPS"] = "done")
    /\ <>[](\A t \in Threads : ~InAccess(t))

\* One thread initialized GROUPS, whose group without a filter is filled
\* from the LIBRARY the other thread initialized, and both have their value.
C11_Witness ==
    /\ yml = FileOf(<<[name |-> "calc", path |-> <<"calc">>, filter |-> <<>>],
                      [name |-> "utility", path |-> <<>>, filter |-> <<"emph">>]>>)
    /\ owner["GROUPS"] = 1
    /\ owner["LIBRARY"] = 2
    /\ runs = [r \in Registries |-> IF r = "FONTS" THEN 0 ELSE 1]
    /\ seen[2] = [reg |-> "LIBRARY", value |-> LibraryValue]
    /\ seen[1].reg = "GROUPS"
    /\ seen[1].value =
          [kind |-> "groups",
           groups |-> <<[name |-> "calc", path |-> <<"calc">>, filter |-> <<"abs", "pow">>],
                        [name |-> "utility", path |-> <<>>, filter |-> <<"emph">>]>>]

====
